---- MODULE Spec2Model ----
(***************************************************************************)
(* Bitemporal value-history engine (temporal): TimePoint / TimeRange       *)
(* algebra, the append-only History log, the Perspective projection and    *)
(* the per-key DefaultLock.                                                *)
(***************************************************************************)
EXTENDS Integers, Sequences, FiniteSets, TLC

(***************************************************************************)
(* Bounds of the model.                                                    *)
(***************************************************************************)
\* TimePoints are whole seconds TimeMin..TimeMax; TimeMax stands for datetime.max.
TimeMax == 3
\* Largest settlement instant handed to record / forget / fetch / get_perspective.
MaxSettled == 2
\* Largest number of entries a History holds.
MaxEntries == 2
\* Number of concurrent callers of DefaultLock.
NumCallers == 2
\* Largest number of threading.Lock objects the registry creates.
MaxLocks == 3
\* Largest number of ranges handed to subtract_all as `others`.
MaxOthers == 2

\* TimePoint.min(): the second datetime.min.
TimeMin == 0

TimePoints == TimeMin..TimeMax
SettledPoints == (TimeMin + 1)..MaxSettled
Values == {"hey", "hop"}

\* Python's None, for Optional values; Some(x) is a present value.
None == <<>>
Some(x) == <<x>>

(***************************************************************************)
(* TimePoint                                                               *)
(***************************************************************************)
is_max(t) == t = TimeMax
is_min(t) == t = TimeMin

\* datetime + timedelta(seconds=1); on datetime.max Python raises OverflowError,
\* rendered as None.
next(t) == IF t = TimeMax THEN None ELSE Some(t + 1)
prev(t) == IF t = TimeMin THEN None ELSE Some(t - 1)

(***************************************************************************)
(* TimeRange: a record [start, end] with start <= end.                     *)
(***************************************************************************)
TimeRange(s, e) == [start |-> s, end |-> e]
TimeRanges == {r \in [start : TimePoints, end : TimePoints] : r.start <= r.end}

\* TimeRange.__lt__
range_lt(self, other) == self.end < other.start

\* TimeRange.__contains__ for a TimePoint
contains(self, t) == self.start <= t /\ t <= self.end

included_in(self, other) == other.start <= self.start /\ self.end <= other.end

overlap_with(self, other) == self.start <= other.end /\ self.end >= other.start

adjacent_to(self, other) ==
    IF range_lt(self, other) THEN next(self.end) = Some(other.start)
    ELSE IF range_lt(other, self) THEN next(other.end) = Some(self.start)
    ELSE FALSE

Min2(a, b) == IF a <= b THEN a ELSE b
Max2(a, b) == IF a >= b THEN a ELSE b

union(self, other) == TimeRange(Min2(self.start, other.start), Max2(self.end, other.end))

\* sorted(set(...)) of TimePoints: ascending sequence of the elements of S.
RECURSIVE sorted(_)
sorted(S) ==
    IF S = {} THEN <<>>
    ELSE LET m == CHOOSE x \in S : \A y \in S : x <= y
         IN <<m>> \o sorted(S \ {m})

\* any(t in other for other in others), others a sequence of TimeRanges
covered(t, others) == \E i \in 1..Len(others) : contains(others[i], t)

\* The start and end points of `others` that fall inside self.
points_of_interest(self, others) ==
    sorted({t \in TimePoints :
              /\ contains(self, t)
              /\ \E i \in 1..Len(others) : t = others[i].start \/ t = others[i].end})

\* A sweep iteration that takes next() of every point of interest outside a
\* run, the MAX sentinel included.
sweep_step_unguarded(st, time_point, others) ==
    IF st.overflow THEN st
    ELSE IF st.in_range # None /\ ~is_min(time_point) THEN
        LET prev_time_point == prev(time_point) IN
        IF prev_time_point = None THEN [st EXCEPT !.overflow = TRUE]
        ELSE IF ~covered(prev_time_point[1], others)
             THEN [st EXCEPT !.results = Append(@, TimeRange(st.in_range[1], prev_time_point[1])),
                             !.in_range = None]
             ELSE st
    ELSE
        LET next_time_point == next(time_point) IN
        IF next_time_point = None THEN [st EXCEPT !.overflow = TRUE]
        ELSE IF ~covered(next_time_point[1], others)
             THEN [st EXCEPT !.in_range = next_time_point]
             ELSE st

\* One iteration of the sweep of subtract_all over a point of interest.  st is
\* [in_range, results, overflow]; overflow records a next()/prev() that stepped
\* past a sentinel (OverflowError), which aborts the call.
sweep_step(st, time_point, others) ==
    IF st.overflow THEN st
    ELSE IF st.in_range # None /\ ~is_min(time_point) THEN
        LET prev_time_point == prev(time_point) IN
        IF prev_time_point = None THEN [st EXCEPT !.overflow = TRUE]
        ELSE IF ~covered(prev_time_point[1], others)
             THEN [st EXCEPT !.results = Append(@, TimeRange(st.in_range[1], prev_time_point[1])),
                             !.in_range = None]
             ELSE st
    ELSE IF ~is_max(time_point) THEN
        LET next_time_point == next(time_point) IN
        IF next_time_point = None THEN [st EXCEPT !.overflow = TRUE]
        ELSE IF ~covered(next_time_point[1], others)
             THEN [st EXCEPT !.in_range = next_time_point]
             ELSE st
    ELSE st

RECURSIVE sweep(_, _, _)
sweep(st, points, others) ==
    IF points = <<>> THEN st
    ELSE sweep(sweep_step(st, Head(points), others), Tail(points), others)

\* A subtract_all whose last remainder stops one second short of self.end.
subtract_all_run_short(self, others) ==
    LET poi == points_of_interest(self, others)
        st0 == [in_range |-> IF \E i \in 1..Len(poi) : poi[i] = self.start
                             THEN None ELSE Some(self.start),
                results  |-> <<>>,
                overflow |-> FALSE]
        st1 == sweep(st0, poi, others)
    IN IF /\ ~st1.overflow /\ st1.in_range # None /\ ~covered(self.end, others)
          /\ st1.in_range[1] < self.end
       THEN [st1 EXCEPT !.results = Append(@, TimeRange(st1.in_range[1], self.end - 1))]
       ELSE st1

\* TimeRange.subtract_all, with the overflow flag kept.
subtract_all_run(self, others) ==
    LET poi == points_of_interest(self, others)
        st0 == [in_range |-> IF \E i \in 1..Len(poi) : poi[i] = self.start
                             THEN None ELSE Some(self.start),
                results  |-> <<>>,
                overflow |-> FALSE]
        st1 == sweep(st0, poi, others)
    IN IF ~st1.overflow /\ st1.in_range # None /\ ~covered(self.end, others)
       THEN [st1 EXCEPT !.results = Append(@, TimeRange(st1.in_range[1], self.end))]
       ELSE st1

subtract_all(self, others) == subtract_all_run(self, others).results

(***************************************************************************)
(* Results of calls: a returned value or a raised exception.               *)
(***************************************************************************)
NoValue == "None"
Return(v) == [raised |-> "no", value |-> v]
Raise(e) == [raised |-> e, value |-> NoValue]

(***************************************************************************)
(* HistoryEntry and History                                                *)
(***************************************************************************)
HistoryEntry(effectivity, settled_at, version, value, is_forgotten) ==
    [effectivity |-> effectivity, settled_at |-> settled_at, version |-> version,
     value |-> value, is_forgotten |-> is_forgotten]

\* HistoryEntry.is_empty
is_empty(entry) == entry.is_forgotten

\* HistoryEntry.get_value
get_value(entry) ==
    IF is_empty(entry) THEN Raise("MissingValueError") ELSE Return(entry.value)

\* HistoryEntry.get_value_or_none
get_value_or_none(entry) == IF is_empty(entry) THEN NoValue ELSE entry.value

\* reversed(seq)
reversed(seq) == [i \in 1..Len(seq) |-> seq[Len(seq) + 1 - i]]

\* A next version that forgets the + 1.
get_next_version_stale(entries) ==
    IF entries # <<>> THEN entries[Len(entries)].version ELSE 0

\* History._get_next_version
get_next_version(entries) ==
    IF entries # <<>> THEN entries[Len(entries)].version + 1 ELSE 0

\* History._entries_settled_at: most recently appended first, entries settled
\* after settled_at skipped.
RECURSIVE entries_settled_at_from(_, _)
entries_settled_at_from(rev, settled_at) ==
    IF rev = <<>> THEN <<>>
    ELSE IF Head(rev).settled_at > settled_at
         THEN entries_settled_at_from(Tail(rev), settled_at)
         ELSE <<Head(rev)>> \o entries_settled_at_from(Tail(rev), settled_at)

\* An _entries_settled_at that yields every entry, whatever its settlement.
entries_settled_at_all(entries, settled_at) == reversed(entries)

\* History._entries_settled_at
entries_settled_at(entries, settled_at) ==
    entries_settled_at_from(reversed(entries), settled_at)

\* History.fetch: the first entry of the scan whose effectivity contains `at`.
RECURSIVE fetch_scan(_, _)
fetch_scan(scan, at) ==
    IF scan = <<>> THEN Raise("MissingValueError")
    ELSE IF contains(Head(scan).effectivity, at) THEN get_value(Head(scan))
    ELSE fetch_scan(Tail(scan), at)

fetch(entries, at, settled_at) == fetch_scan(entries_settled_at(entries, settled_at), at)

(***************************************************************************)
(* PerspectiveEntry and Perspective                                        *)
(***************************************************************************)
PerspectiveEntry(effectivity, value) == [effectivity |-> effectivity, value |-> value]

\* Perspective._compact_entries
RECURSIVE compact_entries_from(_, _)
compact_entries_from(compacted_entries, rest) ==
    IF rest = <<>> THEN compacted_entries
    ELSE LET entry == Head(rest)
             n     == Len(compacted_entries)
         IN IF /\ compacted_entries # <<>>
               /\ adjacent_to(compacted_entries[n].effectivity, entry.effectivity)
               /\ compacted_entries[n].value = entry.value
            THEN compact_entries_from(
                    Append(SubSeq(compacted_entries, 1, n - 1),
                           PerspectiveEntry(union(compacted_entries[n].effectivity,
                                                  entry.effectivity),
                                            entry.value)),
                    Tail(rest))
            ELSE compact_entries_from(Append(compacted_entries, entry), Tail(rest))

\* _compact_entries returning its input untouched (no merge).
compact_entries_skipped(entries) == entries

\* Perspective._compact_entries
compact_entries(entries) == compact_entries_from(<<>>, entries)

\* The error raised by the pairwise verification of Perspective.__init__ on the
\* first offending pair, "no" when every pair passes.
RECURSIVE perspective_verify(_, _)
perspective_verify(entries, i) ==
    IF i >= Len(entries) THEN "no"
    ELSE IF entries[i].effectivity.start > entries[i + 1].effectivity.start
         THEN "MalformedPerspectiveError"
    ELSE IF entries[i].effectivity.end > entries[i + 1].effectivity.start
         THEN "MalformedPerspectiveError"
    ELSE perspective_verify(entries, i + 1)

\* Perspective.__init__
Perspective(settled_at, entries) ==
    IF perspective_verify(entries, 1) # "no"
    THEN Raise(perspective_verify(entries, 1))
    ELSE Return([settled_at |-> settled_at, entries |-> compact_entries(entries)])

\* Perspective.fetch
RECURSIVE perspective_fetch_scan(_, _)
perspective_fetch_scan(scan, at) ==
    IF scan = <<>> THEN Raise("MissingValueError")
    ELSE IF contains(Head(scan).effectivity, at) THEN Return(Head(scan).value)
    ELSE perspective_fetch_scan(Tail(scan), at)

perspective_fetch(perspective, at) ==
    perspective_fetch_scan(reversed(perspective.entries), at)

(***************************************************************************)
(* History.get_perspective                                                 *)
(***************************************************************************)
\* [projection[0] for projection in projections]
known_time_ranges(projections) == [i \in 1..Len(projections) |-> projections[i].range]

\* The projections appended for one entry: its effectivity minus the ranges
\* already projected.
project_entry(projections, entry) ==
    LET remaining == subtract_all(entry.effectivity, known_time_ranges(projections))
    IN projections \o [i \in 1..Len(remaining) |->
                         [range |-> remaining[i], value |-> entry.value,
                          empty |-> is_empty(entry)]]

RECURSIVE project_all(_, _)
project_all(projections, scan) ==
    IF scan = <<>> THEN projections
    ELSE project_all(project_entry(projections, Head(scan)), Tail(scan))

\* [PerspectiveEntry(...) for projection in projections if not projection[2]]
RECURSIVE non_empty_projections(_)
non_empty_projections(projections) ==
    IF projections = <<>> THEN <<>>
    ELSE IF Head(projections).empty THEN non_empty_projections(Tail(projections))
    ELSE <<PerspectiveEntry(Head(projections).range, Head(projections).value)>>
         \o non_empty_projections(Tail(projections))

\* sorted(..., key=lambda pe: pe.effectivity.start): Python's sort is stable.
RECURSIVE insert_by_start(_, _)
insert_by_start(sorted_entries, pe) ==
    IF sorted_entries = <<>> THEN <<pe>>
    ELSE IF Head(sorted_entries).effectivity.start <= pe.effectivity.start
         THEN <<Head(sorted_entries)>> \o insert_by_start(Tail(sorted_entries), pe)
         ELSE <<pe>> \o sorted_entries

RECURSIVE sorted_by_start_from(_, _)
sorted_by_start_from(acc, rest) ==
    IF rest = <<>> THEN acc
    ELSE sorted_by_start_from(insert_by_start(acc, Head(rest)), Tail(rest))

sorted_by_start(pes) == sorted_by_start_from(<<>>, pes)

get_perspective(entries, settled_at) ==
    LET projections == project_all(<<>>, entries_settled_at(entries, settled_at))
    IN Perspective(settled_at, sorted_by_start(non_empty_projections(projections)))

(***************************************************************************)
(* The persistence collaborator of tests/models.py (Subscription).         *)
(***************************************************************************)
\* TimePoint.to_datetime: None for the sentinels when min_max_as_none.
to_datetime(t, min_max_as_none) ==
    IF min_max_as_none /\ (t = TimeMin \/ t = TimeMax) THEN None ELSE Some(t)

\* The _SubscriptionHistoryEntry row appended by Subscription._add_history_entry.
history_entry_row(entry) ==
    [start_at     |-> to_datetime(entry.effectivity.start, TRUE),
     end_at       |-> to_datetime(entry.effectivity.end, TRUE),
     settled_at   |-> to_datetime(entry.settled_at, TRUE),
     version      |-> entry.version,
     is_forgotten |-> entry.is_forgotten,
     value        |-> get_value_or_none(entry)]

\* The SubscriptionVersion rows rebuilt from a Perspective.
version_rows(perspective) ==
    [i \in 1..Len(perspective.entries) |->
        [start_at |-> to_datetime(perspective.entries[i].effectivity.start, FALSE),
         end_at   |-> to_datetime(perspective.entries[i].effectivity.end, FALSE),
         value    |-> perspective.entries[i].value]]

(***************************************************************************)
(* History.__init__ over existing entries                                  *)
(***************************************************************************)
\* The pairwise verification of History.__init__: the error raised on the first
\* offending pair, "no" when every pair passes.
RECURSIVE history_verify(_, _)
history_verify(given_entries, i) ==
    IF i >= Len(given_entries) THEN "no"
    ELSE IF given_entries[i].settled_at > given_entries[i + 1].settled_at
         THEN "MalformedHistoryError"
    ELSE IF given_entries[i + 1].version # given_entries[i].version + 1
         THEN "MalformedHistoryError"
    ELSE history_verify(given_entries, i + 1)

\* History.__init__: the constructed entry list, or the error raised.
History(given_entries) ==
    IF history_verify(given_entries, 1) # "no"
    THEN Raise(history_verify(given_entries, 1))
    ELSE Return(given_entries)

(***************************************************************************)
(* State                                                                   *)
(***************************************************************************)
VARIABLES
    entries,                        \* History._entries
    on_record,                      \* whether History._on_record is set
    subscription_history_entries,   \* rows mirrored by the on_record callback
    subscription_versions,          \* projection rows rebuilt by the callback
    op,                             \* the last call and its arguments
    ret,                            \* what the last call returned or raised
    given,                          \* the entries handed to History.__init__
    built,                          \* what History.__init__ returned or raised
    instances,                      \* _default_lock_instances: key -> lock object
    locked,                         \* locked[l]: threading.Lock l is locked
    created,                        \* number of threading.Lock objects created
    pc,                             \* pc[c]: where caller c is in acquire / release
    lock,                           \* lock[c]: the lock object caller c looked up
    lock_ret,                       \* lock_ret[c]: result of caller c's last call
    snapshot,                       \* the Perspective a reader got and keeps
    pending_entry                   \* pending_entry[c]: the new_entry writer c built, not yet appended

history_vars == <<entries, on_record, subscription_history_entries,
                  subscription_versions, op, ret>>
ctor_vars == <<given, built>>
lock_vars == <<instances, locked, created, pc, lock, lock_ret>>
caller_vars == <<snapshot, pending_entry>>
vars == <<entries, on_record, subscription_history_entries, subscription_versions,
          op, ret, given, built, instances, locked, created, pc, lock, lock_ret,
          snapshot, pending_entry>>

Callers == 1..NumCallers
LockIds == 1..MaxLocks
\* Every DefaultLock of the model is built with the same key.
Key == "id"
EmptyDict == [k \in {} |-> k]

\* History(id, on_record=...) with no entries, and a fresh Subscription.
EmptyHistory ==
    /\ entries = <<>>
    /\ subscription_history_entries = <<>>
    /\ subscription_versions = <<>>
    /\ op = [name |-> "init"]
    /\ ret = Return(NoValue)

NoConstruction ==
    /\ given = <<>>
    /\ built = Return(<<>>)

\* The empty registry of the module, no lock created, every caller outside.
EmptyRegistry ==
    /\ instances = EmptyDict
    /\ locked = [l \in LockIds |-> FALSE]
    /\ created = 0
    /\ pc = [c \in Callers |-> "idle"]
    /\ lock = [c \in Callers |-> None]
    /\ lock_ret = [c \in Callers |-> Return(NoValue)]

\* No reader holds a Perspective and no writer is inside record / forget.
NoCallerState ==
    /\ snapshot = None
    /\ pending_entry = [c \in Callers |-> None]

Init ==
    /\ NoCallerState
    /\ EmptyHistory
    /\ on_record \in BOOLEAN
    /\ NoConstruction
    /\ EmptyRegistry

\* History.record(value, effectivity, _settled_at); settled_at is the explicit
\* _settled_at or the reading of TimePoint.now().  With on_record set, the
\* callback is Subscription._add_history_entry.
Record(value, effectivity, settled_at) ==
    LET new_entry == HistoryEntry(effectivity, settled_at, get_next_version(entries),
                                  value, FALSE)
        appended  == Append(entries, new_entry)
        rebuilt   == get_perspective(appended, new_entry.settled_at)
    IN /\ Len(entries) < MaxEntries
       /\ entries' = appended
       /\ op' = [name |-> "record", value |-> value, effectivity |-> effectivity,
                 settled_at |-> settled_at]
       /\ IF on_record
          THEN /\ subscription_history_entries' =
                      Append(subscription_history_entries, history_entry_row(new_entry))
               /\ IF rebuilt.raised # "no"
                  THEN /\ subscription_versions' = subscription_versions
                       /\ ret' = Raise(rebuilt.raised)
                  ELSE /\ subscription_versions' = version_rows(rebuilt.value)
                       /\ ret' = Return(NoValue)
          ELSE /\ UNCHANGED <<subscription_history_entries, subscription_versions>>
               /\ ret' = Return(NoValue)
       /\ UNCHANGED <<on_record, ctor_vars, lock_vars, caller_vars>>

\* A forget that deletes the entries it covers before appending the retraction.
RECURSIVE not_included(_, _)
not_included(seq, effectivity) ==
    IF seq = <<>> THEN <<>>
    ELSE IF included_in(Head(seq).effectivity, effectivity)
         THEN not_included(Tail(seq), effectivity)
         ELSE <<Head(seq)>> \o not_included(Tail(seq), effectivity)

Forget_removing(effectivity, settled_at) ==
    /\ Len(entries) < MaxEntries
    /\ entries' = Append(not_included(entries, effectivity),
                         HistoryEntry(effectivity, settled_at, get_next_version(entries),
                                      NoValue, TRUE))
    /\ op' = [name |-> "forget", effectivity |-> effectivity, settled_at |-> settled_at]
    /\ ret' = Return(NoValue)
    /\ UNCHANGED <<on_record, subscription_history_entries, subscription_versions,
                   ctor_vars, lock_vars, caller_vars>>

\* A forget under which a Perspective handed out earlier is a view of the
\* History's storage: it is projected again from the entries after the append.
Forget_refreshing(effectivity, settled_at) ==
    LET appended == Append(entries,
                           HistoryEntry(effectivity, settled_at, get_next_version(entries),
                                        NoValue, TRUE))
    IN /\ Len(entries) < MaxEntries
       /\ entries' = appended
       /\ op' = [name |-> "forget", effectivity |-> effectivity, settled_at |-> settled_at]
       /\ ret' = Return(NoValue)
       /\ snapshot' = IF snapshot = None THEN None
                      ELSE IF get_perspective(appended, snapshot[1].settled_at).raised = "no"
                           THEN Some(get_perspective(appended, snapshot[1].settled_at).value)
                           ELSE snapshot
       /\ UNCHANGED <<on_record, subscription_history_entries, subscription_versions,
                      ctor_vars, lock_vars, pending_entry>>

\* History.forget(effectivity, _settled_at)
Forget(effectivity, settled_at) ==
    /\ Len(entries) < MaxEntries
    /\ entries' = Append(entries,
                         HistoryEntry(effectivity, settled_at, get_next_version(entries),
                                      NoValue, TRUE))
    /\ op' = [name |-> "forget", effectivity |-> effectivity, settled_at |-> settled_at]
    /\ ret' = Return(NoValue)
    /\ UNCHANGED <<on_record, subscription_history_entries, subscription_versions,
                   ctor_vars, lock_vars, caller_vars>>

\* History.fetch(at, settled_at)
Fetch(at, settled_at) ==
    /\ op' = [name |-> "fetch", at |-> at, settled_at |-> settled_at]
    /\ ret' = fetch(entries, at, settled_at)
    /\ UNCHANGED <<entries, on_record, subscription_history_entries,
                   subscription_versions, ctor_vars, lock_vars, caller_vars>>

\* History.get_perspective(settled_at)
GetPerspective(settled_at) ==
    /\ op' = [name |-> "get_perspective", settled_at |-> settled_at]
    /\ ret' = get_perspective(entries, settled_at)
    /\ UNCHANGED <<entries, on_record, subscription_history_entries,
                   subscription_versions, ctor_vars, lock_vars, caller_vars>>

Next ==
    \/ \E value \in Values, effectivity \in TimeRanges, settled_at \in SettledPoints :
          Record(value, effectivity, settled_at)
    \/ \E effectivity \in TimeRanges, settled_at \in SettledPoints :
          Forget(effectivity, settled_at)
    \/ \E at \in TimePoints, settled_at \in SettledPoints : Fetch(at, settled_at)
    \/ \E settled_at \in SettledPoints : GetPerspective(settled_at)

\* A single writer and reader on a History that starts empty.
Spec == Init /\ [][Next]_vars

(***************************************************************************)
(* Construction of a History from existing entries                         *)
(***************************************************************************)
\* The entries a caller may hand to History.__init__: any versions, any order
\* of settlement.
GivenEntry ==
    {HistoryEntry(TimeRange(TimeMin, TimeMax), s, v, x[1], x[2]) :
        s \in SettledPoints, v \in 0..MaxEntries,
        x \in {<<val, FALSE>> : val \in Values} \cup {<<NoValue, TRUE>>}}

RECURSIVE SeqsUpTo(_, _)
SeqsUpTo(S, n) ==
    IF n = 0 THEN {<<>>}
    ELSE LET shorter == SeqsUpTo(S, n - 1)
         IN shorter \cup {Append(q, x) : q \in shorter, x \in S}

InitConstruct ==
    /\ NoCallerState
    /\ EmptyHistory
    /\ on_record \in BOOLEAN
    /\ EmptyRegistry
    /\ given \in SeqsUpTo(GivenEntry, MaxEntries)
    /\ built = Return(NoValue)
    /\ op = [name |-> "init"]

\* History(id, entries=given, on_record=...)
HistoryInit ==
    /\ op.name = "init"
    /\ built' = History(given)
    /\ entries' = IF History(given).raised = "no" THEN given ELSE entries
    /\ op' = [name |-> "History"]
    /\ UNCHANGED <<on_record, subscription_history_entries, subscription_versions,
                   ret, given, lock_vars, caller_vars>>

NextConstruct == HistoryInit

SpecConstruct == InitConstruct /\ [][NextConstruct]_vars

(***************************************************************************)
(* DefaultLock                                                             *)
(***************************************************************************)
\* _default_lock_instances[self.key] on the defaultdict: the registered lock,
\* or a new threading.Lock registered under the key.
Lookup(c) ==
    IF Key \in DOMAIN instances
    THEN /\ lock' = [lock EXCEPT ![c] = Some(instances[Key])]
         /\ UNCHANGED <<instances, created>>
    ELSE /\ created < MaxLocks
         /\ created' = created + 1
         /\ instances' = [k \in {Key} |-> created + 1]
         /\ lock' = [lock EXCEPT ![c] = Some(created + 1)]

\* DefaultLock.acquire, first half: the registry lookup.
AcquireLookup(c) ==
    /\ pc[c] = "idle"
    /\ Lookup(c)
    /\ pc' = [pc EXCEPT ![c] = "acquire"]
    /\ UNCHANGED <<locked, lock_ret, history_vars, ctor_vars, caller_vars>>

\* DefaultLock.acquire, second half: threading.Lock.acquire succeeds once the
\* lock is unlocked.
AcquireLock(c) ==
    /\ pc[c] = "acquire"
    /\ ~locked[lock[c][1]]
    /\ locked' = [locked EXCEPT ![lock[c][1]] = TRUE]
    /\ pc' = [pc EXCEPT ![c] = "held"]
    /\ lock_ret' = [lock_ret EXCEPT ![c] = Return("True")]
    /\ UNCHANGED <<instances, created, lock, history_vars, ctor_vars, caller_vars>>

\* threading.Lock.acquire with blocking=False or an elapsed timeout on a locked
\* lock: returns False.
AcquireTimeout(c) ==
    /\ pc[c] = "acquire"
    /\ locked[lock[c][1]]
    /\ pc' = [pc EXCEPT ![c] = "idle"]
    /\ lock_ret' = [lock_ret EXCEPT ![c] = Return("False")]
    /\ UNCHANGED <<instances, locked, created, lock, history_vars, ctor_vars, caller_vars>>

\* DefaultLock.release, line 35: lock = _default_lock_instances[self.key]
ReleaseLookup(c) ==
    /\ pc[c] = "held"
    /\ Lookup(c)
    /\ pc' = [pc EXCEPT ![c] = "release_del"]
    /\ UNCHANGED <<locked, lock_ret, history_vars, ctor_vars, caller_vars>>

\* DefaultLock.release, line 36: del _default_lock_instances[self.key]
ReleaseDel(c) ==
    /\ pc[c] = "release_del"
    /\ IF Key \in DOMAIN instances
       THEN /\ instances' = EmptyDict
            /\ pc' = [pc EXCEPT ![c] = "release_lock"]
            /\ UNCHANGED lock_ret
       ELSE /\ pc' = [pc EXCEPT ![c] = "idle"]
            /\ lock_ret' = [lock_ret EXCEPT ![c] = Raise("KeyError")]
            /\ UNCHANGED instances
    /\ UNCHANGED <<locked, created, lock, history_vars, ctor_vars, caller_vars>>

\* DefaultLock.release, line 37: lock.release()
ReleaseLock(c) ==
    /\ pc[c] = "release_lock"
    /\ IF locked[lock[c][1]]
       THEN /\ locked' = [locked EXCEPT ![lock[c][1]] = FALSE]
            /\ lock_ret' = [lock_ret EXCEPT ![c] = Return(NoValue)]
       ELSE /\ lock_ret' = [lock_ret EXCEPT ![c] = Raise("RuntimeError")]
            /\ UNCHANGED locked
    /\ pc' = [pc EXCEPT ![c] = "idle"]
    /\ UNCHANGED <<instances, created, lock, history_vars, ctor_vars, caller_vars>>

NextLock ==
    \E c \in Callers :
        \/ AcquireLookup(c)
        \/ AcquireLock(c)
        \/ AcquireTimeout(c)
        \/ ReleaseLookup(c)
        \/ ReleaseDel(c)
        \/ ReleaseLock(c)

InitLock ==
    /\ NoCallerState
    /\ EmptyHistory
    /\ on_record = FALSE
    /\ NoConstruction
    /\ EmptyRegistry

\* Concurrent callers of acquire / release on DefaultLock objects of one key.
SpecLock == InitLock /\ [][NextLock]_vars

(***************************************************************************)
(* The interval algebra and Perspective.__init__ applied to given inputs   *)
(***************************************************************************)
\* TimeRange(start=..., end=...) through __post_init__.
new_TimeRange(start, end) ==
    IF end < start THEN Raise("ValueError") ELSE Return(TimeRange(start, end))

\* TimeRange.from_datetimes over Optional datetimes.  A datetime is truthy, so
\* the branches test presence; TimePoint(d) of a whole-second datetime is that
\* second, and a missing bound takes the field's default (MIN or MAX).
from_datetimes(start, end) ==
    IF start # None /\ end # None THEN new_TimeRange(start[1], end[1])
    ELSE IF start # None /\ end = None THEN new_TimeRange(start[1], TimeMax)
    ELSE IF end # None /\ start = None THEN new_TimeRange(TimeMin, end[1])
    ELSE IF start = None /\ end = None THEN new_TimeRange(TimeMin, TimeMax)
    ELSE Raise("ValueError")

\* TimeRange.adjacent_to calls next() on the MAX TimePoint (OverflowError).
adjacent_to_overflow(self, other) ==
    IF range_lt(self, other) THEN next(self.end) = None
    ELSE IF range_lt(other, self) THEN next(other.end) = None
    ELSE FALSE

\* Perspective._compact_entries: some adjacent_to call of the loop overflows.
RECURSIVE compact_overflow_from(_, _)
compact_overflow_from(compacted_entries, rest) ==
    IF rest = <<>> THEN FALSE
    ELSE IF /\ compacted_entries # <<>>
            /\ adjacent_to_overflow(compacted_entries[Len(compacted_entries)].effectivity,
                                    Head(rest).effectivity)
         THEN TRUE
    ELSE compact_overflow_from(compact_entries_from(compacted_entries, <<Head(rest)>>),
                               Tail(rest))

\* Perspective.__init__, with an OverflowError of the compaction surfaced.
Perspective_run(settled_at, supplied) ==
    IF perspective_verify(supplied, 1) # "no" THEN Raise(perspective_verify(supplied, 1))
    ELSE IF compact_overflow_from(<<>>, supplied) THEN Raise("OverflowError")
    ELSE Perspective(settled_at, supplied)

\* History.get_perspective: some subtract_all call of the loop overflows.
RECURSIVE project_overflow(_, _)
project_overflow(projections, scan) ==
    IF scan = <<>> THEN FALSE
    ELSE IF subtract_all_run(Head(scan).effectivity,
                             known_time_ranges(projections)).overflow
         THEN TRUE
    ELSE project_overflow(project_entry(projections, Head(scan)), Tail(scan))

\* History.get_perspective, with an OverflowError surfaced.
get_perspective_run(recorded, settled_at) ==
    LET scan == entries_settled_at(recorded, settled_at)
    IN IF project_overflow(<<>>, scan) THEN Raise("OverflowError")
       ELSE Perspective_run(settled_at,
                            sorted_by_start(non_empty_projections(project_all(<<>>, scan))))

\* A call's inputs: a TimeRange and a list of TimeRanges.
InitAlgebra ==
    /\ NoCallerState
    /\ entries = <<>>
    /\ subscription_history_entries = <<>>
    /\ subscription_versions = <<>>
    /\ on_record = FALSE
    /\ NoConstruction
    /\ EmptyRegistry
    /\ ret = Return(NoValue)
    /\ op \in {[name |-> "input", self |-> self, others |-> others] :
                  self \in TimeRanges, others \in SeqsUpTo(TimeRanges, MaxOthers)}

algebra_frame ==
    UNCHANGED <<entries, on_record, subscription_history_entries, subscription_versions,
                ctor_vars, lock_vars, caller_vars>>

\* self.subtract_all(others)
SubtractAll ==
    /\ op.name = "input"
    /\ op' = [op EXCEPT !.name = "subtract_all"]
    /\ ret' = IF subtract_all_run(op.self, op.others).overflow
              THEN Raise("OverflowError")
              ELSE Return(subtract_all(op.self, op.others))
    /\ algebra_frame

\* [r for each in results for r in each.subtract_all(others)]
RECURSIVE subtract_each(_, _)
subtract_each(ranges, others) ==
    IF ranges = <<>> THEN <<>>
    ELSE subtract_all(Head(ranges), others) \o subtract_each(Tail(ranges), others)

\* The remainders of a subtract_all call, each subtracted from again.
SubtractAgain ==
    /\ op.name = "subtract_all"
    /\ ret.raised = "no"
    /\ op' = [name |-> "subtract_again", self |-> op.self, others |-> op.others,
              once |-> ret.value]
    /\ ret' = Return(subtract_each(ret.value, op.others))
    /\ algebra_frame

\* self.adjacent_to(other)
AdjacentTo(other) ==
    /\ op.name = "input"
    /\ op' = [name |-> "adjacent_to", self |-> op.self, other |-> other]
    /\ ret' = IF adjacent_to_overflow(op.self, other) THEN Raise("OverflowError")
              ELSE Return(adjacent_to(op.self, other))
    /\ algebra_frame

\* TimeRange.from_datetimes(self.start.to_datetime(), self.end.to_datetime())
RoundTrip ==
    /\ op.name = "input"
    /\ op' = [name |-> "from_datetimes", self |-> op.self,
              start |-> to_datetime(op.self.start, TRUE),
              end |-> to_datetime(op.self.end, TRUE)]
    /\ ret' = from_datetimes(to_datetime(op.self.start, TRUE),
                             to_datetime(op.self.end, TRUE))
    /\ algebra_frame

\* The ranges of a call's inputs, in the order given.
input_ranges == <<op.self>> \o op.others

\* Perspective(settled_at, entries) over the given ranges, each with a value.
PerspectiveInit(settled_at, values) ==
    LET supplied == [i \in 1..Len(input_ranges) |->
                        PerspectiveEntry(input_ranges[i], values[i])]
    IN /\ op.name = "input"
       /\ op' = [name |-> "Perspective", settled_at |-> settled_at, entries |-> supplied]
       /\ ret' = Perspective_run(settled_at, supplied)
       /\ algebra_frame

\* What an entry carries: a value, or the retraction marker.
EntryKinds == {<<value, FALSE>> : value \in Values} \cup {<<NoValue, TRUE>>}

\* History(id, entries=rows).get_perspective(settled_at), the rows covering the
\* given ranges, all settled at settled_at, with versions 0, 1, 2, ...
GetPerspectiveOf(settled_at, kinds) ==
    LET rows == [i \in 1..Len(input_ranges) |->
                    HistoryEntry(input_ranges[i], settled_at, i - 1,
                                 kinds[i][1], kinds[i][2])]
    IN /\ op.name = "input"
       /\ op' = [name |-> "History.get_perspective", settled_at |-> settled_at,
                 entries |-> rows]
       /\ ret' = IF History(rows).raised # "no" THEN History(rows)
                 ELSE get_perspective_run(History(rows).value, settled_at)
       /\ algebra_frame

NextAlgebra ==
    \/ SubtractAll
    \/ SubtractAgain
    \/ RoundTrip
    \/ /\ op.name = "input"
       /\ \E i \in 1..Len(op.others) : AdjacentTo(op.others[i])
    \/ /\ op.name = "input"
       /\ \E settled_at \in SettledPoints, values \in [1..Len(input_ranges) -> Values] :
             PerspectiveInit(settled_at, values)
    \/ /\ op.name = "input"
       /\ \E settled_at \in SettledPoints, kinds \in [1..Len(input_ranges) -> EntryKinds] :
             GetPerspectiveOf(settled_at, kinds)

\* The pure operations of the core, each applied to inputs drawn at the start.
SpecAlgebra == InitAlgebra /\ [][NextAlgebra]_vars

(***************************************************************************)
(* Writers that take the DefaultLock around record / forget                *)
(***************************************************************************)
\* The writers that have built their entry and not yet appended it.
writing == {c \in Callers : pending_entry[c] # None}

\* History.record / History.forget up to the construction of the entry, whose
\* version is read by _get_next_version; the caller holds the DefaultLock it
\* acquired.  The writer covers the default range (MIN to MAX).
WriterBuild(c, kind, settled_at) ==
    /\ pc[c] = "held"
    /\ Len(entries) + Cardinality(writing) < MaxEntries
    /\ pending_entry' = [pending_entry EXCEPT ![c] =
                            Some(HistoryEntry(TimeRange(TimeMin, TimeMax), settled_at,
                                              get_next_version(entries),
                                              kind[1], kind[2]))]
    /\ pc' = [pc EXCEPT ![c] = "append"]
    /\ UNCHANGED <<history_vars, ctor_vars, snapshot,
                   instances, locked, created, lock, lock_ret>>

\* History.record / History.forget from self._entries.append(entry) to the
\* return (no on_record callback is installed).
WriterAppend(c) ==
    /\ pc[c] = "append"
    /\ entries' = Append(entries, pending_entry[c][1])
    /\ pending_entry' = [pending_entry EXCEPT ![c] = None]
    /\ pc' = [pc EXCEPT ![c] = "held"]
    /\ op' = [name |-> IF pending_entry[c][1].is_forgotten THEN "forget" ELSE "record",
              caller |-> c]
    /\ ret' = Return(NoValue)
    /\ UNCHANGED <<on_record, subscription_history_entries, subscription_versions,
                   ctor_vars, snapshot, instances, locked, created, lock, lock_ret>>

NextWriters ==
    \E c \in Callers :
        \/ AcquireLookup(c)
        \/ AcquireLock(c)
        \/ AcquireTimeout(c)
        \/ \E kind \in EntryKinds, settled_at \in SettledPoints :
              WriterBuild(c, kind, settled_at)
        \/ WriterAppend(c)
        \/ ReleaseLookup(c)
        \/ ReleaseDel(c)
        \/ ReleaseLock(c)

\* Concurrent writers on one History, each calling record / forget only
\* between DefaultLock(id).acquire() and DefaultLock(id).release().
SpecWriters == InitLock /\ [][NextWriters]_vars

(***************************************************************************)
(* A reader that keeps the Perspective it was given                        *)
(***************************************************************************)
\* perspective = history.get_perspective(settled_at), kept by the caller.  The
\* Perspective owns its list: list(entries) of a list that sorted() built.
TakePerspective(settled_at) ==
    /\ get_perspective(entries, settled_at).raised = "no"
    /\ snapshot' = Some(get_perspective(entries, settled_at).value)
    /\ op' = [name |-> "get_perspective", settled_at |-> settled_at]
    /\ ret' = get_perspective(entries, settled_at)
    /\ UNCHANGED <<entries, on_record, subscription_history_entries,
                   subscription_versions, ctor_vars, lock_vars, pending_entry>>

\* perspective.fetch(at) on the Perspective the caller kept.
SnapshotFetch(at) ==
    /\ snapshot # None
    /\ op' = [name |-> "Perspective.fetch", at |-> at]
    /\ ret' = perspective_fetch(snapshot[1], at)
    /\ UNCHANGED <<entries, on_record, subscription_history_entries,
                   subscription_versions, ctor_vars, lock_vars, caller_vars>>

NextSnapshot ==
    \/ \E value \in Values, effectivity \in TimeRanges, settled_at \in SettledPoints :
          Record(value, effectivity, settled_at)
    \/ \E effectivity \in TimeRanges, settled_at \in SettledPoints :
          Forget(effectivity, settled_at)
    \/ \E settled_at \in SettledPoints : TakePerspective(settled_at)
    \/ \E at \in TimePoints : SnapshotFetch(at)

\* A History written to while a caller holds a Perspective taken from it.
SpecSnapshot == Init /\ [][NextSnapshot]_vars

(***************************************************************************)
(* Properties                                                              *)
(***************************************************************************)
\* Caller c's acquire has returned True and c has not yet called release.
Holding(c) == pc[c] = "held"

\* C1: for DefaultLock instances sharing one key, at most one caller at a time
\* is between a successful acquire and its matching release.
C1_MutualExclusion == Cardinality({c \in Callers : Holding(c)}) <= 1

\* The entries settled at or before settled_at whose effectivity contains at.
Candidates(at, settled_at) ==
    {i \in 1..Len(entries) :
        /\ entries[i].settled_at <= settled_at
        /\ contains(entries[i].effectivity, at)}

\* The most recently settled candidate (the later append among equal settlements).
MostRecentlySettled(at, settled_at) ==
    CHOOSE i \in Candidates(at, settled_at) :
        \A j \in Candidates(at, settled_at) :
            \/ entries[j].settled_at < entries[i].settled_at
            \/ entries[j].settled_at = entries[i].settled_at /\ j <= i

\* C2: fetch(at, settled_at=S) returns the value of the most recently settled
\* entry among those settled at or before S whose effectivity contains at, and
\* fails with missing-value when that entry is a retraction or none exists.
C2_FetchMostRecentlySettled ==
    op.name = "fetch" =>
        ret = IF Candidates(op.at, op.settled_at) = {} THEN Raise("MissingValueError")
              ELSE LET winner == entries[MostRecentlySettled(op.at, op.settled_at)]
                   IN IF winner.is_forgotten THEN Raise("MissingValueError")
                      ELSE Return(winner.value)

\* C3: get_perspective(S) never fails with malformed-perspective, and the
\* entries it returns are sorted by start and pairwise non-overlapping.
C3_GetPerspectiveSucceeds ==
    op.name = "get_perspective" =>
        /\ ret.raised = "no"
        /\ \A i \in 1..Len(ret.value.entries) : \A j \in 1..Len(ret.value.entries) :
              i < j =>
                 /\ ret.value.entries[i].effectivity.start
                       <= ret.value.entries[j].effectivity.start
                 /\ ~overlap_with(ret.value.entries[i].effectivity,
                                  ret.value.entries[j].effectivity)

\* C4: for every cutoff S and instant at, if History.fetch(at, S) returns a
\* value v then get_perspective(S).fetch(at) returns the same v.
C4_PerspectiveKeepsValues ==
    \A settled_at \in SettledPoints : \A at \in TimePoints :
        LET known == fetch(entries, at, settled_at)
            perspective == get_perspective(entries, settled_at)
        IN known.raised = "no" =>
              /\ perspective.raised = "no"
              /\ perspective_fetch(perspective.value, at) = known

\* C5: for every cutoff S and instant at, if History.fetch(at, S) fails with
\* missing-value then get_perspective(S) has no entry whose effectivity
\* contains at and Perspective.fetch(at) fails with missing-value.
C5_RetractionsAreHoles ==
    \A settled_at \in SettledPoints : \A at \in TimePoints :
        LET known == fetch(entries, at, settled_at)
            perspective == get_perspective(entries, settled_at)
        IN known.raised = "MissingValueError" =>
              /\ perspective.raised = "no"
              /\ \A i \in 1..Len(perspective.value.entries) :
                    ~contains(perspective.value.entries[i].effectivity, at)
              /\ perspective_fetch(perspective.value, at) = Raise("MissingValueError")

\* C6: the entries' settled_at values are non-decreasing in append order (a
\* record or forget that would break the order appends nothing).
C6_SettledAtNonDecreasing ==
    \A i \in 1..Len(entries) : \A j \in 1..Len(entries) :
        i < j => entries[i].settled_at <= entries[j].settled_at

\* C7: starting from an empty History, the entry at 0-based position i has
\* version i.
C7_VersionsSequential ==
    \A i \in 1..Len(entries) : entries[i].version = i - 1

\* A History that took a forget and then a record.
C7_Witness ==
    /\ Len(entries) >= 2
    /\ entries[1].is_forgotten
    /\ ~entries[2].is_forgotten
    /\ entries[2].version = 1

\* settled_at non-decreasing along the sequence and versions 0, 1, 2, ...
WellFormed(seq) ==
    /\ \A i \in 1..Len(seq) : seq[i].version = i - 1
    /\ \A i \in 1..(Len(seq) - 1) : seq[i].settled_at <= seq[i + 1].settled_at

\* C8: constructing a History from a sequence of entries succeeds exactly when
\* settled_at is non-decreasing and the versions are 0, 1, 2, ... in order, and
\* fails with malformed-history otherwise.
C8_ConstructionExact ==
    op.name = "History" =>
        built = IF WellFormed(given) THEN Return(given)
                ELSE Raise("MalformedHistoryError")

\* C9: each record or forget call grows the entry sequence by exactly one entry
\* placed at the end and leaves the earlier entries in place; fetch and
\* get_perspective leave the entry sequence unchanged.
C9_AppendOnly ==
    [][/\ op'.name \in {"record", "forget"} =>
            /\ Len(entries') = Len(entries) + 1
            /\ SubSeq(entries', 1, Len(entries)) = entries
       /\ op'.name \in {"fetch", "get_perspective"} => entries' = entries]_vars

\* A query answered on a History holding a record and a forget.
C9_Witness ==
    /\ op.name \in {"fetch", "get_perspective"}
    /\ Len(entries) >= 2
    /\ \E i \in 1..Len(entries) : entries[i].is_forgotten
    /\ \E i \in 1..Len(entries) : ~entries[i].is_forgotten

\* C10: with an on_record callback, every successful record and forget call
\* invokes the callback once with the new entry, so the mirroring collaborator
\* holds one row per entry of the History.
C10_CallbackMirrors ==
    on_record =>
        /\ Len(subscription_history_entries) = Len(entries)
        /\ \A i \in 1..Len(entries) :
              subscription_history_entries[i] = history_entry_row(entries[i])

\* The instants of a list of ranges.
instants_of(ranges) ==
    {t \in TimePoints : \E i \in 1..Len(ranges) : contains(ranges[i], t)}

\* C11: self.subtract_all(others) is an ascending list of pairwise disjoint,
\* non-adjacent ranges whose instants are exactly the instants of self that no
\* range of others covers.
C11_SubtractAllExact ==
    op.name = "subtract_all" =>
        /\ ret.raised = "no"
        /\ \A i \in 1..Len(ret.value) : \A j \in 1..Len(ret.value) :
              i < j => ret.value[i].end + 1 < ret.value[j].start
        /\ instants_of(ret.value) = instants_of(<<op.self>>) \ instants_of(op.others)

\* C12: Perspective(settled_at, entries) fails with MalformedPerspectiveError
\* exactly when the supplied entries are not in non-decreasing order of
\* effectivity.start or two of them share an instant (previous.end ==
\* next.start included); otherwise it succeeds.
C12_MalformedIffUnorderedOrOverlapping ==
    op.name = "Perspective" =>
        LET malformed ==
                \E i \in 1..Len(op.entries) : \E j \in 1..Len(op.entries) :
                    /\ i < j
                    /\ \/ op.entries[i].effectivity.start > op.entries[j].effectivity.start
                       \/ overlap_with(op.entries[i].effectivity, op.entries[j].effectivity)
        IN ret.raised = IF malformed THEN "MalformedPerspectiveError" ELSE "no"

\* Supplied entries i and i + 1 are adjacent and carry equal values.
linked(supplied, i) ==
    /\ adjacent_to(supplied[i].effectivity, supplied[i + 1].effectivity)
    /\ supplied[i].value = supplied[i + 1].value

\* The positions at which a maximal run of linked supplied entries begins.
run_starts(supplied) ==
    {i \in 1..Len(supplied) : i = 1 \/ ~linked(supplied, i - 1)}

\* The position at which the run beginning at i ends.
run_end(supplied, i) ==
    CHOOSE j \in i..Len(supplied) :
        /\ \A k \in i..(j - 1) : linked(supplied, k)
        /\ j = Len(supplied) \/ ~linked(supplied, j)

\* The k-th run start, in order.
nth_run_start(supplied, k) ==
    CHOOSE i \in run_starts(supplied) :
        Cardinality({x \in run_starts(supplied) : x <= i}) = k

\* C13: in a successfully constructed Perspective no two consecutive entries
\* are adjacent with equal values; each maximal run of adjacent equal-valued
\* supplied entries has become one entry spanning their union; and the value
\* fetched at every instant is the one the supplied entries give.
C13_CompactionMergesRuns ==
    (op.name = "Perspective" /\ ret.raised = "no") =>
        LET compacted == ret.value.entries
        IN /\ \A i \in 1..(Len(compacted) - 1) : ~linked(compacted, i)
           /\ Len(compacted) = Cardinality(run_starts(op.entries))
           /\ \A k \in 1..Len(compacted) :
                 LET first == nth_run_start(op.entries, k)
                     last  == run_end(op.entries, first)
                 IN compacted[k] =
                       PerspectiveEntry(TimeRange(op.entries[first].effectivity.start,
                                                  op.entries[last].effectivity.end),
                                        op.entries[first].value)
           /\ \A at \in TimePoints :
                 perspective_fetch(ret.value, at)
                    = perspective_fetch([settled_at |-> op.settled_at,
                                         entries |-> op.entries], at)

\* A run of three supplied entries was merged into one.
C13_Witness ==
    /\ op.name = "Perspective"
    /\ ret.raised = "no"
    /\ Len(op.entries) = 3
    /\ Len(ret.value.entries) = 1

\* C14: with every writer calling record / forget only while it holds the
\* DefaultLock of the History's id, the entries have versions 0..n-1 in append
\* order under every interleaving (no duplicate, no skipped version).
C14_LockedWritersSequential ==
    \A i \in 1..Len(entries) : entries[i].version + 1 = i

\* C15: a record of a value over a range on which fetch, as of the new entry's
\* settlement, already returns that value at every instant appends one entry
\* and leaves get_perspective as of that settlement with the same entries.
C15_RedundantRecordKeepsPerspective ==
    [][(/\ op'.name = "record"
        /\ entries' # entries
        /\ \A at \in TimePoints :
              contains(op'.effectivity, at) =>
                 /\ fetch(entries, at, op'.settled_at).raised = "no"
                 /\ fetch(entries, at, op'.settled_at).value = op'.value)
       => /\ Len(entries') = Len(entries) + 1
          /\ get_perspective(entries', op'.settled_at).raised
                = get_perspective(entries, op'.settled_at).raised
          /\ get_perspective(entries, op'.settled_at).raised = "no" =>
                get_perspective(entries', op'.settled_at).value.entries
                   = get_perspective(entries, op'.settled_at).value.entries]_vars

\* C16: subtracting others again from each range of self.subtract_all(others)
\* and concatenating the results yields exactly self.subtract_all(others).
C16_SubtractAllIdempotent ==
    op.name = "subtract_again" =>
        /\ ret.raised = "no"
        /\ ret.value = op.once

\* A subtraction that left two remainders was applied a second time.
C16_Witness ==
    /\ op.name = "subtract_again"
    /\ op.others # <<>>
    /\ Len(op.once) = 2
    /\ ret.raised = "no"

\* C17: a record or forget on the History leaves a Perspective obtained
\* earlier from get_perspective with the same settled_at, the same entries and
\* the same fetch result at every instant.
C17_SnapshotIndependent ==
    [][(op'.name \in {"record", "forget"} /\ entries' # entries /\ snapshot # None)
       => /\ snapshot' # None
          /\ snapshot'[1].settled_at = snapshot[1].settled_at
          /\ snapshot'[1].entries = snapshot[1].entries
          /\ \A at \in TimePoints :
                perspective_fetch(snapshot'[1], at) = perspective_fetch(snapshot[1], at)]_vars

\* The History has moved on from a Perspective a caller still holds: the
\* perspective as of the same cutoff now has other entries.
C17_Witness ==
    /\ snapshot # None
    /\ op.name \in {"record", "forget"}
    /\ get_perspective(entries, snapshot[1].settled_at).raised = "no"
    /\ get_perspective(entries, snapshot[1].settled_at).value.entries # snapshot[1].entries

\* C18: for every TimeRange r, TimeRange.from_datetimes(r.start.to_datetime(),
\* r.end.to_datetime()) equals r, MIN and MAX being encoded as null.
C18_DatetimeRoundTrip ==
    op.name = "from_datetimes" =>
        /\ ret.raised = "no"
        /\ ret.value = op.self

\* C19: adjacent_to, subtract_all, the compaction of Perspective.__init__ and
\* get_perspective never call next() on the MAX TimePoint nor prev() on the MIN
\* TimePoint (either call raises OverflowError).
C19_NoStepPastSentinel ==
    op.name \in {"adjacent_to", "subtract_all", "Perspective", "History.get_perspective"}
        => ret.raised # "OverflowError"

\* subtract_all swept a range reaching MAX with a point of interest at MAX
\* and one at MIN.
C19_Witness ==
    /\ op.name = "subtract_all"
    /\ op.self = TimeRange(TimeMin, TimeMax)
    /\ \E i \in 1..Len(op.others) : op.others[i].end = TimeMax
    /\ \E i \in 1..Len(op.others) : op.others[i].start = TimeMin
    /\ ret.raised = "no"

\* The entries settled at or before the cutoff that cover the instant all have
\* one settled_at, and there are several of them.
tied(at, settled_at) ==
    /\ Cardinality(Candidates(at, settled_at)) >= 2
    /\ \A i \in Candidates(at, settled_at) : \A j \in Candidates(at, settled_at) :
          entries[i].settled_at = entries[j].settled_at

\* The entry appended last among those covering the instant.
last_appended(at, settled_at) ==
    entries[CHOOSE i \in Candidates(at, settled_at) :
               \A j \in Candidates(at, settled_at) : j <= i]

\* What the last appended covering entry gives: its value, or missing-value
\* when it is a retraction.
last_appended_result(at, settled_at) ==
    IF last_appended(at, settled_at).is_forgotten THEN Raise("MissingValueError")
    ELSE Return(last_appended(at, settled_at).value)

\* C20: when several entries with the same settled_at (at or before the
\* cutoff) cover an instant, the one appended last determines the result of
\* History.fetch and the value of the perspective at that instant.
C20_LastAppendedWinsTies ==
    \A settled_at \in SettledPoints : \A at \in TimePoints :
        tied(at, settled_at) =>
            /\ fetch(entries, at, settled_at) = last_appended_result(at, settled_at)
            /\ get_perspective(entries, settled_at).raised = "no"
            /\ perspective_fetch(get_perspective(entries, settled_at).value, at)
                  = last_appended_result(at, settled_at)

\* C21: appending, by record or forget, an entry whose settled_at is strictly
\* later than S changes neither the outcome of fetch(at, S) at any instant nor
\* the outcome and entries of get_perspective(S).
C21_AsOfStable ==
    [][(op'.name \in {"record", "forget"} /\ entries' # entries)
       => \A settled_at \in SettledPoints :
             op'.settled_at > settled_at =>
                /\ \A at \in TimePoints :
                      /\ fetch(entries', at, settled_at).raised
                            = fetch(entries, at, settled_at).raised
                      /\ fetch(entries', at, settled_at).value
                            = fetch(entries, at, settled_at).value
                /\ get_perspective(entries', settled_at).raised
                      = get_perspective(entries, settled_at).raised
                /\ get_perspective(entries, settled_at).raised = "no" =>
                      get_perspective(entries', settled_at).value.entries
                         = get_perspective(entries, settled_at).value.entries]_vars

\* An entry settled later was appended over an instant that an entry settled
\* earlier covers, and changed what is known now at that instant.
C21_Witness ==
    /\ op.name \in {"record", "forget"}
    /\ Len(entries) = 2
    /\ entries[1].settled_at < entries[2].settled_at
    /\ \E at \in TimePoints :
          /\ contains(entries[1].effectivity, at)
          /\ contains(entries[2].effectivity, at)
          /\ fetch(entries, at, entries[2].settled_at).raised
                # fetch(entries, at, entries[1].settled_at).raised

\* C22: a release made by a caller that holds the key after its own successful
\* acquire never raises, and never unlocks a lock that a different caller
\* holds.
C22_ReleaseSafe ==
    [][\A c \in Callers :
          (pc[c] \in {"release_del", "release_lock"} /\ pc'[c] = "idle")
             => /\ lock_ret'[c].raised = "no"
                /\ \A d \in Callers \ {c} :
                      (pc[d] = "held" /\ locked[lock[d][1]]) => locked'[lock[d][1]]]_vars

\* C23: a record call that raises (its on_record callback failed) leaves the
\* History's entry sequence as it was before the call; an entry stays appended
\* only when record returns normally.
C23_RecordAllOrNothing ==
    [][(op'.name = "record" /\ ret'.raised # "no") => entries' = entries]_vars

====
